---- MODULE Spec2Model ----
(***************************************************************************)
(* Habit tracker: the segment timeline, the entry store with its streak    *)
(* recomputation, and the cascading deletes, as implemented twice: by the  *)
(* Express/Mongoose server (src/server/index.js) and by the client's       *)
(* localStorage fallback (src/services/api.ts).                            *)
(*                                                                         *)
(* Calendar dates "YYYY-MM-DD" are day numbers (integers); the order of    *)
(* the strings is the order of the numbers.  An instant is a number of     *)
(* hours since day 0, 00:00 UTC.  A nullable field holds <<>> (null or     *)
(* absent) or <<v>>.                                                       *)
(***************************************************************************)
EXTENDS Integers, Sequences, FiniteSets, TLC

\* ------------------------------------------------------------------ bounds
\* the timeline specification: dates 0..MaxDate, MaxSlots slots, MaxSegs segments
MaxDate == 3
MaxSlots == 2
MaxSegs == 3
\* the entry specification: dates 0..EntryDate, EntrySegs segments, MaxEntries entries
EntryDate == 1
EntrySegs == 2
MaxEntries == 2
\* the delete specification: DelSlots slots, DelSegs segments, DelEntries entries
DelSlots == 1
DelSegs == 2
DelEntries == 2
\* the store specification (every operation)
FullSlots == 2
FullSegs == 2
FullEntries == 2
FullDate == 0

\* the rename specification: RenSegs segments, RenEntries entries
RenSegs == 2
RenEntries == 1

\* the failing-toggle specification: dates 0..FailDate, FailSegs segments, FailEntries entries
FailDate == 1
FailSegs == 1
FailEntries == 2

\* the analytics specification: up to AnSegs loaded segments
AnSegs == 2
\* the top-habits specification: up to TopSegs loaded segments
TopSegs == 6

\* the row specification: up to RowSegs segments in the slot
RowSegs == 2

\* the cell specification: start dates 1..CellDate, CellSegs segments in one slot
CellDate == 3
CellSegs == 3

\* the query specification: QuerySlots slots, QuerySegs segments
QuerySlots == 2
QuerySegs == 3

\* the reorder specification: ReSlots slots
ReSlots == 3

\* the milestone specification: stored streaks 0..MaxStreak
MaxStreak == 310

\* the percentage specification: PctSegs segments of one slot starting on days
\* 1..PctDate, PctEntries entries on those days
PctDate == 2
PctSegs == 2
PctEntries == 2

\* the concurrent toggles: RaceReqs requests in flight, for days 0..RaceDate
RaceReqs == 2
RaceDate == 2

\* the hybrid specification: HybSegs segments, HybEntries entries per store on
\* days 0..HybDate
HybSegs == 2
HybEntries == 1
HybDate == 1

Dates == 0..MaxDate
EntryDates == 0..EntryDate
FullDates == 0..FullDate
\* the (name, color) pairs a rename or recolour asks for
Looks == {<<"n2", "c1">>, <<"n1", "c2">>}
FailDates == 0..FailDate
CellDates == 1..CellDate
\* start dates around a month that begins on day 1: the day before it, days 2
\* and 3, day 30
QueryDates == {0, 2, 3, 30}
\* the months loaded: one that ends before day 30 and one that holds it
QueryMonths == {28, 31}
\* UTC offsets of the process-local time zone, in hours (no DST transitions)
TzOffsets == {-5, 0, 5}
Stores == {"server", "local"}

Null == <<>>
Some(v) == <<v>>
IsNull(o) == o = <<>>
Val(o) == o[1]

VARIABLES
  tz,        \* UTC offset (hours) of the zone the browser and the server run in
  up,        \* TRUE: the API calls reach the server; FALSE: they fall back to localStorage
  slots,     \* [Stores -> Seq(slot record)]
  segments,  \* [Stores -> Seq(segment record)]
  entries,   \* [Stores -> Seq(entry record)]
  nextSlot,  \* next fresh slot id
  nextId,    \* next fresh segment id
  last,      \* the last API call and its response
  ui,        \* the Dashboard: viewed month, today, loaded records, memoized views
  inflight   \* the toggle requests the server is handling, each at its next await

vars == <<tz, up, slots, segments, entries, nextSlot, nextId, last, ui, inflight>>

\* ------------------------------------------------------------ sequences
Min(S) == CHOOSE x \in S : \A y \in S : x <= y
Max(S) == CHOOSE x \in S : \A y \in S : x >= y
\* Array.prototype.findIndex / findOne, given the indices that match: the
\* first of them, 0 for -1 (findOne takes the first document in insertion order)
FindIndex(matches) == IF matches = {} THEN 0 ELSE Min(matches)
Range(s) == {s[i] : i \in 1..Len(s)}

\* --------------------------------------------------------- date helpers
\* new Date("YYYY-MM-DD"): a date-only string is midnight UTC of that day
DateParse(d) == d * 24
\* d.setDate(d.getDate() - 1): one local calendar day back, same local time of day
SetDateMinusOne(t, off) == ((t + off) - 24) - off
\* toISOString().split('T')[0]: the UTC calendar day of the instant
ToISODate(t) == t \div 24
\* getFullYear()/getMonth()/getDate(): the local calendar day of the instant
LocalYMD(t, off) == (t + off) \div 24

ServerGetPreviousDate(d, off) == ToISODate(SetDateMinusOne(DateParse(d), off))

LocalGetPreviousDate(d, off) == LocalYMD(SetDateMinusOne(DateParse(d), off), off)

\* ------------------------------------------------------------- records
NoCall == [op |-> "none", id |-> 0, slot |-> 0, date |-> 0, completed |-> FALSE,
           existed |-> FALSE, was |-> FALSE, streak |-> 0,
           lastCompletedDate |-> Null, status |-> "ok"]

\* Mongoose strict mode: only the paths of HabitSegmentSchema are stored, so
\* streak and lastCompletedDate never reach a server document
HabitSegmentSchema(doc) == [doc EXCEPT !.streak = Null, !.lastCompletedDate = Null]

NewSegment(id, slotId, name, color, startDate) ==
  [id |-> id, slotId |-> slotId, name |-> name, color |-> color,
   startDate |-> startDate, endDate |-> Null,
   streak |-> Some(0), lastCompletedDate |-> Null]

\* a request slot of the server: free, or a toggle request before its upsert,
\* its query of the completed entries, its segment update, or answered
NoRequest == [pc |-> "idle", segmentId |-> 0, date |-> 0, completed |-> FALSE,
              existed |-> FALSE, was |-> FALSE,
              streak |-> 0, lastCompletedDate |-> Null]

NoRequests == [r \in 1..RaceReqs |-> NoRequest]

\* the Dashboard before its first load: nothing loaded, nothing rendered
NoView == [monthLen |-> 0, today |-> 0, slots |-> <<>>, segments |-> <<>>,
           entries |-> <<>>, analytics |-> Null, streaks |-> <<>>,
           year |-> 0, month |-> 0, curr |-> 0, days |-> <<>>,
           rendered |-> "none"]

Init ==
  /\ tz \in TzOffsets
  /\ up \in BOOLEAN
  /\ slots = [st \in Stores |-> <<>>]
  /\ segments = [st \in Stores |-> <<>>]
  /\ entries = [st \in Stores |-> <<>>]
  /\ nextSlot = 1
  /\ nextId = 1
  /\ last = NoCall
  /\ inflight = NoRequests
  /\ ui = NoView

Store == IF up THEN "server" ELSE "local"

\* ----------------------------------------------------------------- slots
CreateSlot ==
  /\ slots' = [slots EXCEPT ![Store] =
                 Append(@, [id |-> nextSlot, order |-> Len(@)])]
  /\ nextSlot' = nextSlot + 1
  /\ last' = [NoCall EXCEPT !.op = "createSlot", !.slot = nextSlot]
  /\ UNCHANGED <<inflight, ui, tz, up, segments, entries, nextId>>

\* -------------------------------------------------------- CreateSegment
IsOpenOf(slotId, s) == s.slotId = slotId /\ IsNull(s.endDate)

ServerCreateSegment(segs, id, slotId, name, color, startDate, off) ==
  LET IsOpen(s) == IsOpenOf(slotId, s)
      existing == FindIndex({k \in 1..Len(segs) : IsOpen(segs[k])})
      prevEndDate == ToISODate(SetDateMinusOne(DateParse(startDate), off))
      closed == IF existing # 0 /\ DateParse(startDate) > DateParse(segs[existing].startDate)
                THEN [segs EXCEPT ![existing].endDate = Some(prevEndDate)]
                ELSE segs
  IN Append(closed, HabitSegmentSchema(NewSegment(id, slotId, name, color, startDate)))

LocalCreateSegment(segs, id, slotId, name, color, startDate, off) ==
  LET IsOpen(s) == IsOpenOf(slotId, s)
      existingIndex == FindIndex({k \in 1..Len(segs) : IsOpen(segs[k])})
      prevEndDate == LocalYMD(SetDateMinusOne(DateParse(startDate), off), off)
      closed == IF existingIndex # 0
                THEN [segs EXCEPT ![existingIndex].endDate = Some(prevEndDate)]
                ELSE segs
  IN Append(closed, NewSegment(id, slotId, name, color, startDate))

CreateSegment(slotId, name, color, startDate) ==
  /\ segments' = [segments EXCEPT ![Store] =
       IF up THEN ServerCreateSegment(@, nextId, slotId, name, color, startDate, tz)
             ELSE LocalCreateSegment(@, nextId, slotId, name, color, startDate, tz)]
  /\ nextId' = nextId + 1
  /\ last' = [NoCall EXCEPT !.op = "createSegment", !.id = nextId, !.slot = slotId,
                            !.date = startDate]
  /\ UNCHANGED <<inflight, ui, tz, up, slots, entries, nextSlot>>

SlotIdsOf(st) == {slots[st][i].id : i \in 1..Len(slots[st])}
SegIdsOf(st) == {segments[st][i].id : i \in 1..Len(segments[st])}

\* -------------------------------------------------------- UpdateSegment
\* findByIdAndUpdate(id, {name, color}): no document, no change, null is returned
ServerUpdateSegment(segs, id, name, color) ==
  [i \in 1..Len(segs) |->
     IF segs[i].id = id
     THEN HabitSegmentSchema([segs[i] EXCEPT !.name = name, !.color = color])
     ELSE segs[i]]

\* the same update, rebuilding the record from the request instead of patching it
UpdateRebuildsSegment(segs, id, name, color) ==
  LET HasId(s) == s.id = id
      index == FindIndex({k \in 1..Len(segs) : HasId(segs[k])})
  IN IF index # 0
     THEN [segs EXCEPT ![index] = NewSegment(@.id, @.slotId, name, color, @.startDate)]
     ELSE segs

LocalUpdateSegment(segs, id, name, color) ==
  LET HasId(s) == s.id = id
      index == FindIndex({k \in 1..Len(segs) : HasId(segs[k])})
  IN IF index # 0
     THEN [segs EXCEPT ![index] = [@ EXCEPT !.name = name, !.color = color]]
     ELSE segs

UpdateSegment(id, name, color) ==
  /\ segments' = [segments EXCEPT ![Store] =
       IF up THEN ServerUpdateSegment(@, id, name, color)
             ELSE LocalUpdateSegment(@, id, name, color)]
  /\ last' = [NoCall EXCEPT !.op = "updateSegment", !.id = id,
                !.existed = id \in SegIdsOf(Store),
                \* the offline fallback throws 'Segment not found locally'
                !.status = IF ~up /\ id \notin SegIdsOf(Store) THEN "error" ELSE "ok"]
  /\ UNCHANGED <<inflight, ui, tz, up, slots, entries, nextSlot, nextId>>

\* -------------------------------------------------------- DeleteSegment
RemoveSegment(segs, id) ==
  LET Keep(s) == s.id # id IN SelectSeq(segs, Keep)

\* a bug: the filter keeps the deleted segment's entries and drops the others
RemoveEntriesOfOthers(es, id) ==
  LET Keep(e) == e.segmentId = id IN SelectSeq(es, Keep)

\* HabitEntry.deleteMany({segmentId: id}) / entries.filter(e => e.segmentId !== id)
RemoveEntriesOf(es, id) ==
  LET Keep(e) == e.segmentId # id IN SelectSeq(es, Keep)

DeleteSegment(id) ==
  /\ segments' = [segments EXCEPT ![Store] = RemoveSegment(@, id)]
  /\ entries' = [entries EXCEPT ![Store] = RemoveEntriesOf(@, id)]
  /\ last' = [NoCall EXCEPT !.op = "deleteSegment", !.id = id,
                !.existed = id \in SegIdsOf(Store),
                !.was = \E i \in 1..Len(entries[Store]) : entries[Store][i].segmentId = id]
  /\ UNCHANGED <<inflight, ui, tz, up, slots, nextSlot, nextId>>

\* ----------------------------------------------------------- DeleteSlot
RemoveSlot(sl, id) ==
  LET Keep(s) == s.id # id IN SelectSeq(sl, Keep)

RemoveSegmentsOfSlot(segs, id) ==
  LET Keep(s) == s.slotId # id IN SelectSeq(segs, Keep)

SegmentIdsOfSlot(segs, id) ==
  {segs[i].id : i \in {j \in 1..Len(segs) : segs[j].slotId = id}}

\* HabitEntry.deleteMany({segmentId: {$in: segmentIds}})
ServerDeleteSlotEntries(es, segs, id) ==
  LET Keep(e) == e.segmentId \notin SegmentIdsOfSlot(segs, id) IN SelectSeq(es, Keep)

\* "Entries cleanup skipped for offline mock simplicity"
LocalDeleteSlotEntries(es, segs, id) == es

DeleteSlot(id) ==
  /\ slots' = [slots EXCEPT ![Store] = RemoveSlot(@, id)]
  /\ segments' = [segments EXCEPT ![Store] = RemoveSegmentsOfSlot(@, id)]
  /\ entries' = [entries EXCEPT ![Store] =
       IF up THEN ServerDeleteSlotEntries(@, segments[Store], id)
             ELSE LocalDeleteSlotEntries(@, segments[Store], id)]
  /\ last' = [NoCall EXCEPT !.op = "deleteSlot", !.slot = id,
                !.existed = id \in SlotIdsOf(Store),
                !.was = \E i \in 1..Len(entries[Store]) :
                          entries[Store][i].segmentId \in SegmentIdsOfSlot(segments[Store], id)]
  /\ UNCHANGED <<inflight, ui, tz, up, nextSlot, nextId>>

\* ---------------------------------------------------------- ToggleEntry
IsEntryOf(segmentId, date, e) == e.segmentId = segmentId /\ e.date = date

HasEntry(es, segmentId, date) ==
  \E i \in 1..Len(es) : IsEntryOf(segmentId, date, es[i])

\* a bug: the update is applied only when the document is inserted
UpsertKeepsExisting(es, segmentId, date, completed) ==
  IF HasEntry(es, segmentId, date) THEN es
  ELSE Append(es, [segmentId |-> segmentId, date |-> date, completed |-> completed])

\* a bug: the lookup is skipped and every toggle pushes a record
UpsertAlwaysPushes(es, segmentId, date, completed) ==
  Append(es, [segmentId |-> segmentId, date |-> date, completed |-> completed])

\* findOneAndUpdate({deviceId, segmentId, date}, {completed}, {new, upsert})
ServerUpsertEntry(es, segmentId, date, completed) ==
  LET Match(e) == IsEntryOf(segmentId, date, e)
      found == FindIndex({k \in 1..Len(es) : Match(es[k])})
  IN IF found # 0
     THEN [es EXCEPT ![found].completed = completed]
     ELSE Append(es, [segmentId |-> segmentId, date |-> date, completed |-> completed])

LocalUpsertEntry(es, segmentId, date, completed) ==
  LET Match(e) == IsEntryOf(segmentId, date, e)
      index == FindIndex({k \in 1..Len(es) : Match(es[k])})
  IN IF index # 0
     THEN [es EXCEPT ![index].completed = completed]
     ELSE Append(es, [segmentId |-> segmentId, date |-> date, completed |-> completed])

\* the dates of a sequence of entries, latest first (a stable sort)
RECURSIVE SortDatesDesc(_)
SortDatesDesc(ds) ==
  IF ds = <<>> THEN <<>>
  ELSE LET m == Max(Range(ds))
           IsMax(d) == d = m
           NotMax(d) == d # m
       IN SelectSeq(ds, IsMax) \o SortDatesDesc(SelectSeq(ds, NotMax))

\* find({segmentId, completed: true}).sort({date: -1}) /
\* entries.filter(e => e.segmentId === segmentId && e.completed).sort(...)
CompletedDates(es, segmentId) ==
  LET Done(e) == e.segmentId = segmentId /\ e.completed
      done == SelectSeq(es, Done)
  IN SortDatesDesc([i \in 1..Len(done) |-> done[i].date])

RECURSIVE ServerStreakLoop(_, _, _, _, _)
ServerStreakLoop(ds, i, currentDate, streak, off) ==
  IF i > Len(ds) THEN streak
  ELSE LET prevDate == ServerGetPreviousDate(currentDate, off)
       IN IF ds[i] = prevDate
          THEN ServerStreakLoop(ds, i + 1, prevDate, streak + 1, off)
          ELSE streak

ServerStreak(es, segmentId, off) ==
  LET completedEntries == CompletedDates(es, segmentId)
  IN IF Len(completedEntries) > 0
     THEN [streak |-> ServerStreakLoop(completedEntries, 2, completedEntries[1], 1, off),
           lastCompletedDate |-> Some(completedEntries[1])]
     ELSE [streak |-> 0, lastCompletedDate |-> Null]

RECURSIVE LocalStreakLoop(_, _, _, _, _)
LocalStreakLoop(ds, i, currentDate, streak, off) ==
  IF i > Len(ds) THEN streak
  ELSE LET prev == LocalGetPreviousDate(currentDate, off)
       IN IF ds[i] = prev
          THEN LocalStreakLoop(ds, i + 1, prev, streak + 1, off)
          ELSE streak

LocalStreak(es, segmentId, off) ==
  LET segmentEntries == CompletedDates(es, segmentId)
  IN IF Len(segmentEntries) > 0
     THEN [streak |-> LocalStreakLoop(segmentEntries, 2, segmentEntries[1], 1, off),
           lastCompletedDate |-> Some(segmentEntries[1])]
     ELSE [streak |-> 0, lastCompletedDate |-> Null]

\* HabitSegment.findByIdAndUpdate(segmentId, {streak, lastCompletedDate})
ServerStoreStreak(segs, segmentId, r) ==
  [i \in 1..Len(segs) |->
     IF segs[i].id = segmentId
     THEN HabitSegmentSchema([segs[i] EXCEPT !.streak = Some(r.streak),
                                            !.lastCompletedDate = r.lastCompletedDate])
     ELSE segs[i]]

LocalStoreStreak(segs, segmentId, r) ==
  LET HasId(s) == s.id = segmentId
      segIndex == FindIndex({k \in 1..Len(segs) : HasId(segs[k])})
  IN IF segIndex # 0
     THEN [segs EXCEPT ![segIndex] = [@ EXCEPT !.streak = Some(r.streak),
                                              !.lastCompletedDate = r.lastCompletedDate]]
     ELSE segs

ToggleEntry(segmentId, date, completed) ==
  LET es == IF up THEN ServerUpsertEntry(entries[Store], segmentId, date, completed)
                  ELSE LocalUpsertEntry(entries[Store], segmentId, date, completed)
      r == IF up THEN ServerStreak(es, segmentId, tz) ELSE LocalStreak(es, segmentId, tz)
      Match(e) == IsEntryOf(segmentId, date, e)
      before == SelectSeq(entries[Store], Match)
  IN /\ entries' = [entries EXCEPT ![Store] = es]
     /\ segments' = [segments EXCEPT ![Store] =
          IF up THEN ServerStoreStreak(@, segmentId, r)
                ELSE LocalStoreStreak(@, segmentId, r)]
     /\ last' = [NoCall EXCEPT !.op = "toggleEntry", !.id = segmentId, !.date = date,
                   !.completed = completed,
                   !.existed = before # <<>>,
                   !.was = before # <<>> /\ before[1].completed,
                   !.streak = r.streak, !.lastCompletedDate = r.lastCompletedDate]
     /\ UNCHANGED <<inflight, ui, tz, up, slots, nextSlot, nextId>>

\* where a storage call of toggleEntry can throw: the entry upsert, the query for
\* the completed entries, the segment update
FailPoints == {"upsert", "query", "update"}

\* toggleEntry with a storage call that throws.  On the server the awaits before
\* the failing one have taken effect, the handler answers 500, and the client's
\* catch block then runs the whole offline fallback.  Offline the failing call
\* is a setLocal: of the entries (nothing was written yet), or of the segments,
\* which runs only if the segment is stored and comes after the entries were
\* written; the exception reaches the caller.
ToggleEntryFails(segmentId, date, completed, at) ==
  LET es == IF up THEN ServerUpsertEntry(entries["server"], segmentId, date, completed)
                  ELSE LocalUpsertEntry(entries["local"], segmentId, date, completed)
      fes == LocalUpsertEntry(entries["local"], segmentId, date, completed)
      fr == LocalStreak(fes, segmentId, tz)
      Match(e) == IsEntryOf(segmentId, date, e)
      before == SelectSeq(entries[Store], Match)
  IN /\ at \in FailPoints
     /\ up \/ at = "upsert" \/ (at = "update" /\ segmentId \in SegIdsOf("local"))
     /\ entries' = [st \in Stores |->
          IF st = Store
          THEN (IF at = "upsert" THEN entries[st] ELSE es)
          ELSE (IF up THEN fes ELSE entries[st])]
     /\ segments' = [st \in Stores |->
          IF up /\ st = "local" THEN LocalStoreStreak(segments[st], segmentId, fr)
          ELSE segments[st]]
     /\ last' = [NoCall EXCEPT !.op = "toggleEntry", !.id = segmentId, !.date = date,
                   !.completed = completed,
                   !.existed = before # <<>>,
                   !.was = before # <<>> /\ before[1].completed,
                   !.streak = IF up THEN fr.streak ELSE 0,
                   !.lastCompletedDate = IF up THEN fr.lastCompletedDate ELSE Null,
                   !.status = IF up THEN "server-error" ELSE "error"]
     /\ UNCHANGED <<inflight, ui, tz, up, slots, nextSlot, nextId>>

\* ids the client has seen: every segment id issued so far, stored or deleted
IssuedSegIds == 1..(nextId - 1)
IssuedSlotIds == 1..(nextSlot - 1)

\* ------------------------------------------------------------ analytics
\* The viewed month is the dates MonthFirst .. MonthFirst + monthLen - 1; the
\* dates below MonthFirst lie in earlier months, the dates above in later ones.
MonthFirst == 1
WeekLength == 7
TopHabitsLimit == 5

\* getDaysInMonth: every day from startOf('month') to endOf('month')
GetDaysInMonth(monthLen) == [k \in 1..monthLen |-> MonthFirst + k - 1]

\* dayjs(date).date(): the day of the month of a date of the viewed month
DayOfMonth(date) == date - MonthFirst + 1

RECURSIVE GCD(_, _)
GCD(a, b) == IF b = 0 THEN a ELSE GCD(b, a % b)

\* the same ratio without the guard on the denominator
PctUnguarded(completed, total) ==
  LET g == GCD(100 * completed, total)
  IN IF g = 0 THEN [num |-> 0, den |-> 0]
     ELSE [num |-> (100 * completed) \div g, den |-> total \div g]

\* total === 0 ? 0 : (completed / total) * 100, kept as the fraction in lowest
\* terms (the counts are far too small for two different fractions to round
\* to one double)
Pct(completed, total) ==
  IF total = 0 THEN [num |-> 0, den |-> 1]
  ELSE LET g == GCD(100 * completed, total)
       IN [num |-> (100 * completed) \div g, den |-> total \div g]

\* a.rate < b.rate
RateLess(a, b) == a.num * b.den < b.num * a.den

\* segments.forEach(seg => ... if (isActive) dailyMap.get(dStr).total++)
RECURSIVE TotalFrom(_, _, _)
TotalFrom(segs, i, date) ==
  IF i > Len(segs) THEN 0
  ELSE (IF segs[i].startDate <= date
           /\ (IsNull(segs[i].endDate) \/ date <= Val(segs[i].endDate))
        THEN 1 ELSE 0) + TotalFrom(segs, i + 1, date)

\* entries.forEach(entry => if (dailyMap.has(entry.date) && entry.completed) ...completed++)
RECURSIVE CompletedFrom(_, _, _)
CompletedFrom(es, k, date) ==
  IF k > Len(es) THEN 0
  ELSE (IF es[k].date = date /\ es[k].completed THEN 1 ELSE 0)
       + CompletedFrom(es, k + 1, date)

\* the same Map, counting every entry of a day whatever its completed flag
DailyMapAnyFlag(days, segs, es) ==
  [k \in 1..Len(days) |->
     [date |-> days[k],
      total |-> TotalFrom(segs, 1, days[k]),
      completed |-> Cardinality({j \in 1..Len(es) : es[j].date = days[k]})]]

\* the Map from each day of the month to its counters, in insertion order
DailyMap(days, segs, es) ==
  [k \in 1..Len(days) |->
     [date |-> days[k],
      total |-> TotalFrom(segs, 1, days[k]),
      completed |-> CompletedFrom(es, 1, days[k])]]

DailyCompletion(dailyMap) ==
  [k \in 1..Len(dailyMap) |->
     [date |-> dailyMap[k].date,
      value |-> Pct(dailyMap[k].completed, dailyMap[k].total)]]

RECURSIVE TotalPossible(_, _)
TotalPossible(dailyMap, k) ==
  IF k > Len(dailyMap) THEN 0 ELSE dailyMap[k].total + TotalPossible(dailyMap, k + 1)

RECURSIVE TotalCompleted(_, _)
TotalCompleted(dailyMap, k) ==
  IF k > Len(dailyMap) THEN 0 ELSE dailyMap[k].completed + TotalCompleted(dailyMap, k + 1)

\* the mean over the days instead of the ratio over the segment-days
OverallPerDay(dailyMap) ==
  Pct(TotalCompleted(dailyMap, 1), Len(dailyMap))

OverallEfficiency(dailyMap) ==
  Pct(TotalCompleted(dailyMap, 1), TotalPossible(dailyMap, 1))

\* the bucket by the day of the week instead (1..7)
WeekNumByWeekday(date) == ((DayOfMonth(date) - 1) % WeekLength) + 1

\* Math.ceil(dayjs(date).date() / 7)
WeekNum(date) == (DayOfMonth(date) + WeekLength - 1) \div WeekLength

\* weeks[weekNum].total += stats.total; weeks[weekNum].completed += stats.completed
RECURSIVE Weeks(_, _, _)
Weeks(dailyMap, k, weekNum) ==
  IF k > Len(dailyMap) THEN [total |-> 0, completed |-> 0]
  ELSE LET rest == Weeks(dailyMap, k + 1, weekNum)
       IN IF WeekNum(dailyMap[k].date) = weekNum
          THEN [total |-> rest.total + dailyMap[k].total,
                completed |-> rest.completed + dailyMap[k].completed]
          ELSE rest

\* Object.keys of an object with integer keys: ascending
RECURSIVE ObjectKeys(_)
ObjectKeys(keys) ==
  IF keys = {} THEN <<>> ELSE <<Min(keys)>> \o ObjectKeys(keys \ {Min(keys)})

WeeklyProgress(dailyMap) ==
  LET ws == ObjectKeys({WeekNum(dailyMap[k].date) : k \in 1..Len(dailyMap)})
  IN [j \in 1..Len(ws) |->
        [week |-> ws[j],
         value |-> Pct(Weeks(dailyMap, 1, ws[j]).completed,
                       Weeks(dailyMap, 1, ws[j]).total)]]

\* segPossible and segCompleted of one segment over the days from index k on
RECURSIVE SegCounts(_, _, _, _)
SegCounts(days, k, seg, es) ==
  IF k > Len(days) THEN [possible |-> 0, completed |-> 0]
  ELSE LET rest == SegCounts(days, k + 1, seg, es)
           isActive == seg.startDate <= days[k]
                         /\ (IsNull(seg.endDate) \/ days[k] <= Val(seg.endDate))
           done == \E j \in 1..Len(es) : /\ es[j].segmentId = seg.id
                                         /\ es[j].date = days[k]
                                         /\ es[j].completed
       IN IF isActive
          THEN [possible |-> rest.possible + 1,
                completed |-> rest.completed + (IF done THEN 1 ELSE 0)]
          ELSE rest

HabitStats(days, segs, es) ==
  [i \in 1..Len(segs) |->
     [name |-> segs[i].name,
      rate |-> Pct(SegCounts(days, 1, segs[i], es).completed,
                   SegCounts(days, 1, segs[i], es).possible)]]

\* the same insertion, in front of the items of equal rate
InsertBeforeEqual(sorted, x) ==
  LET n == Cardinality({k \in 1..Len(sorted) : RateLess(x.rate, sorted[k].rate)})
  IN SubSeq(sorted, 1, n) \o <<x>> \o SubSeq(sorted, n + 1, Len(sorted))

\* Array.prototype.sort((a, b) => b.rate - a.rate): stable, so an item goes
\* behind every item whose rate is not lower than its own
InsertByRate(sorted, x) ==
  LET n == Cardinality({k \in 1..Len(sorted) : ~RateLess(sorted[k].rate, x.rate)})
  IN SubSeq(sorted, 1, n) \o <<x>> \o SubSeq(sorted, n + 1, Len(sorted))

RECURSIVE SortByRate(_)
SortByRate(stats) ==
  IF stats = <<>> THEN <<>>
  ELSE InsertByRate(SortByRate(SubSeq(stats, 1, Len(stats) - 1)), stats[Len(stats)])

\* .slice(0, 5)
Slice(s, limit) == SubSeq(s, 1, IF Len(s) < limit THEN Len(s) ELSE limit)

AnalyticsData(days, segs, es) ==
  IF Len(es) = 0 /\ Len(segs) = 0 THEN Null
  ELSE LET dailyMap == DailyMap(days, segs, es)
       IN Some([dailyCompletion |-> DailyCompletion(dailyMap),
                overallEfficiency |-> OverallEfficiency(dailyMap),
                weeklyProgress |-> WeeklyProgress(dailyMap),
                topHabits |-> Slice(SortByRate(HabitStats(days, segs, es)),
                                    TopHabitsLimit)])

\* the Dashboard re-evaluates the analyticsData memo over what it has loaded
RenderAnalytics ==
  /\ ui.rendered = "none"
  /\ ui' = [ui EXCEPT !.analytics = AnalyticsData(GetDaysInMonth(ui.monthLen),
                                                   ui.segments, ui.entries),
                      !.rendered = "analytics"]
  /\ UNCHANGED <<inflight, tz, up, slots, segments, entries, nextSlot, nextId, last>>

\* -------------------------------------------------------------- SlotRow
\* the segments of the slot that overlap the viewed month; the row shows the last
ActiveSegment(slotId, days, segs) ==
  LET Overlaps(s) == /\ s.slotId = slotId
                     /\ s.startDate <= days[Len(days)]
                     /\ (IsNull(s.endDate) \/ Val(s.endDate) >= days[1])
      slotSegments == SelectSeq(segs, Overlaps)
  IN IF Len(slotSegments) > 0 THEN Some(slotSegments[Len(slotSegments)]) ELSE Null

\* dayjs().subtract(1, 'day').format('YYYY-MM-DD')
YesterdayStr(today) == today - 1

\* the streak the row displays, evaluated on the local date today
EffectiveStreak(activeSegment, today) ==
  IF \/ IsNull(activeSegment)
     \/ IsNull(Val(activeSegment).streak)
     \/ Val(Val(activeSegment).streak) = 0
     \/ IsNull(Val(activeSegment).lastCompletedDate)
  THEN 0
  ELSE IF Val(Val(activeSegment).lastCompletedDate) >= YesterdayStr(today)
       THEN Val(Val(activeSegment).streak)
       ELSE 0

\* the segment a cell of the row belongs to: the first one of the slot that holds the day
SegmentForDay(slotId, date, segs) ==
  LET Holds(s) == /\ s.slotId = slotId
                  /\ s.startDate <= date
                  /\ (IsNull(s.endDate) \/ Val(s.endDate) >= date)
      found == SelectSeq(segs, Holds)
  IN IF found = <<>> THEN Null ELSE Some(found[1])

\* the completed flag of a cell
IsCompleted(slotId, date, segs, es) ==
  LET segmentForDay == SegmentForDay(slotId, date, segs)
  IN IF IsNull(segmentForDay) THEN FALSE
     ELSE \E j \in 1..Len(es) : /\ es[j].segmentId = Val(segmentForDay).id
                                /\ es[j].date = date
                                /\ es[j].completed

\* Math.ceil(a / b) for a >= 0, b > 0
Ceil(a, b) == (a + b - 1) \div b

\* the ladder with the round-up taken on the streak itself
NextMilestoneFromStreak(effectiveStreak) ==
  IF effectiveStreak < 7 THEN 7
  ELSE IF effectiveStreak < 14 THEN 14
  ELSE IF effectiveStreak < 21 THEN 21
  ELSE IF effectiveStreak < 30 THEN 30
  ELSE IF effectiveStreak < 60 THEN 60
  ELSE IF effectiveStreak < 90 THEN 90
  ELSE Ceil(effectiveStreak, 100) * 100

\* the nextMilestone memo
NextMilestone(effectiveStreak) ==
  IF effectiveStreak < 7 THEN 7
  ELSE IF effectiveStreak < 14 THEN 14
  ELSE IF effectiveStreak < 21 THEN 21
  ELSE IF effectiveStreak < 30 THEN 30
  ELSE IF effectiveStreak < 60 THEN 60
  ELSE IF effectiveStreak < 90 THEN 90
  ELSE Ceil(effectiveStreak + 1, 100) * 100

\* every SlotRow evaluates its effectiveStreak and nextMilestone memos
RenderRows ==
  /\ ui.rendered = "none"
  /\ ui' = [ui EXCEPT
       !.streaks = [k \in 1..Len(ui.slots) |->
          LET effectiveStreak ==
                EffectiveStreak(
                  ActiveSegment(ui.slots[k].id, GetDaysInMonth(ui.monthLen),
                                ui.segments),
                  ui.today)
          IN [slot |-> ui.slots[k].id,
              streak |-> effectiveStreak,
              nextMilestone |-> NextMilestone(effectiveStreak)]],
       !.rendered = "rows"]
  /\ UNCHANGED <<inflight, tz, up, slots, segments, entries, nextSlot, nextId, last>>

\* ------------------------------------------------------------- loading
\* the slots in ascending order: an item goes behind every item whose order is
\* not higher than its own (Array.prototype.sort is stable; sort('order'))
InsertByOrder(sorted, x) ==
  LET n == Cardinality({k \in 1..Len(sorted) : sorted[k].order <= x.order})
  IN SubSeq(sorted, 1, n) \o <<x>> \o SubSeq(sorted, n + 1, Len(sorted))

RECURSIVE SortByOrder(_)
SortByOrder(s) ==
  IF s = <<>> THEN <<>>
  ELSE InsertByOrder(SortByOrder(SubSeq(s, 1, Len(s) - 1)), s[Len(s)])

\* Slot.find({deviceId}).sort('order')
ServerGetSlots(ss) == SortByOrder(ss)

\* getLocal(SLOTS).filter(...).sort((a, b) => a.order - b.order)
LocalGetSlots(ss) == SortByOrder(ss)

\* `${month}-01` and `${month}-${daysInMonth}`
StartOfMonth == MonthFirst
EndOfMonth(monthLen) == MonthFirst + monthLen - 1

\* HabitSegment.find({startDate: {$lte: endOfMonth},
\*                    $or: [{endDate: {$gte: startOfMonth}}, {endDate: null}]})
ServerGetSegments(segs, monthLen) ==
  LET Matches(s) == /\ s.startDate <= EndOfMonth(monthLen)
                    /\ \/ (~IsNull(s.endDate) /\ Val(s.endDate) >= StartOfMonth)
                       \/ IsNull(s.endDate)
  IN SelectSeq(segs, Matches)

\* segments.filter(s => startsBeforeEnd && endsAfterStart)
LocalGetSegments(segs, monthLen) ==
  LET Matches(s) ==
        LET startsBeforeEnd == s.startDate <= EndOfMonth(monthLen)
            endsAfterStart == IsNull(s.endDate) \/ Val(s.endDate) >= StartOfMonth
        IN startsBeforeEnd /\ endsAfterStart
  IN SelectSeq(segs, Matches)

\* HabitEntry.find({date: {$regex: `^${month}`}})
ServerGetEntries(es, monthLen) ==
  LET InMonth(e) == e.date \in StartOfMonth..EndOfMonth(monthLen)
  IN SelectSeq(es, InMonth)

\* entries.filter(e => e.date.startsWith(month))
LocalGetEntries(es, monthLen) ==
  LET InMonth(e) == StartOfMonth <= e.date /\ e.date <= EndOfMonth(monthLen)
  IN SelectSeq(es, InMonth)

GetSlots == IF up THEN ServerGetSlots(slots["server"]) ELSE LocalGetSlots(slots["local"])

GetSegments(monthLen) ==
  IF up THEN ServerGetSegments(segments["server"], monthLen)
        ELSE LocalGetSegments(segments["local"], monthLen)

GetEntries(monthLen) ==
  IF up THEN ServerGetEntries(entries["server"], monthLen)
        ELSE LocalGetEntries(entries["local"], monthLen)

\* loadMonthData: the Dashboard takes the slots and the month's segments and
\* entries from the store; today is the first day of the viewed month
LoadMonthData(monthLen) ==
  /\ ui' = [NoView EXCEPT !.monthLen = monthLen,
                          !.today = MonthFirst,
                          !.slots = GetSlots,
                          !.segments = GetSegments(monthLen),
                          !.entries = GetEntries(monthLen)]
  /\ UNCHANGED <<inflight, tz, up, slots, segments, entries, nextSlot, nextId, last>>

\* --------------------------------------------------------- reorderSlots
\* arrayMove(items, oldIndex, newIndex)
ArrayMove(items, oldIndex, newIndex) ==
  LET without == SubSeq(items, 1, oldIndex - 1) \o SubSeq(items, oldIndex + 1, Len(items))
  IN SubSeq(without, 1, newIndex - 1) \o <<items[oldIndex]>>
       \o SubSeq(without, newIndex, Len(without))

\* bulkWrite: updateOne({_id: s._id}, {order: idx}) for every slot of the request
ServerReorderSlots(ss, newOrder) ==
  [i \in 1..Len(ss) |->
     LET idx == FindIndex({k \in 1..Len(newOrder) : newOrder[k].id = ss[i].id})
     IN IF idx # 0 THEN [ss[i] EXCEPT !.order = idx - 1] ELSE ss[i]]

\* allSlots.map(s => match ? {...s, order: match.order} : s)
LocalReorderSlots(ss, newOrder) ==
  [i \in 1..Len(ss) |->
     LET match == FindIndex({k \in 1..Len(newOrder) : newOrder[k].id = ss[i].id})
     IN IF match # 0 THEN [ss[i] EXCEPT !.order = newOrder[match].order] ELSE ss[i]]

\* handleDragEnd: the row at oldIndex is dropped at newIndex; the Dashboard
\* shows the new sequence and sends it to reorderSlots
ReorderSlots(oldIndex, newIndex) ==
  LET newOrder == ArrayMove(ui.slots, oldIndex, newIndex)
  IN /\ oldIndex \in 1..Len(ui.slots)
     /\ newIndex \in 1..Len(ui.slots)
     /\ oldIndex # newIndex
     /\ ui' = [ui EXCEPT !.slots = newOrder]
     /\ slots' = [slots EXCEPT ![Store] =
          IF up THEN ServerReorderSlots(@, newOrder) ELSE LocalReorderSlots(@, newOrder)]
     /\ last' = [NoCall EXCEPT !.op = "reorderSlots"]
     /\ UNCHANGED <<inflight, tz, up, segments, entries, nextSlot, nextId>>

\* ------------------------------------------------- the days of a month
\* the calendar of Date: the day number (days since 1970-01-01) on which a
\* year begins, whether a year has 366 days, and the day of the year on
\* which month m (0 = January) begins
DayFromYearJulian(y) ==
  365 * (y - 1970) + ((y - 1969) \div 4)

DayFromYear(y) ==
  365 * (y - 1970) + ((y - 1969) \div 4) - ((y - 1901) \div 100)
    + ((y - 1601) \div 400)

InLeapYear(y) == DayFromYear(y + 1) - DayFromYear(y) = 366

MonthStartDay(m, leap) ==
  <<0, 31, 59, 90, 120, 151, 181, 212, 243, 273, 304, 334>>[m + 1]
    + (IF leap /\ m >= 2 THEN 1 ELSE 0)

\* new Date(y, m, dt): the day number of day dt of month m, where m = 12 is
\* January of the next year and dt = 0 the last day of the month before
MakeDay(y, m, dt) ==
  LET ym == y + (m \div 12)
      mn == m % 12
  IN DayFromYear(ym) + MonthStartDay(mn, InLeapYear(ym)) + dt - 1

\* date.startOf('month'): 00:00 of day 1; date.endOf('month'): the last hour of
\* the last day
StartOfMonthAt(y, m) == DateParse(MakeDay(y, m, 1))
EndOfMonthAt(y, m) == DateParse(MakeDay(y, m + 1, 0)) + 23

\* curr.add(1, 'day')
AddOneDay(t) == t + 24

\* curr.isBefore(end) || curr.isSame(end, 'day')
IsBeforeOrSameDay(curr, end) == curr < end \/ ToISODate(curr) = ToISODate(end)

\* getDaysInMonth(date) is entered: start, end and the empty list
StartDaysInMonth(y, m) ==
  /\ ui.rendered = "none"
  /\ ui' = [ui EXCEPT !.year = y, !.month = m,
                      !.curr = StartOfMonthAt(y, m),
                      !.days = <<>>,
                      !.rendered = "days-loop"]
  /\ UNCHANGED <<inflight, tz, up, slots, segments, entries, nextSlot, nextId, last>>

\* one evaluation of the while condition: one more day, or the list is returned
StepDaysInMonth ==
  /\ ui.rendered = "days-loop"
  /\ ui' = IF IsBeforeOrSameDay(ui.curr, EndOfMonthAt(ui.year, ui.month))
           THEN [ui EXCEPT !.days = Append(@, ui.curr),
                           !.curr = AddOneDay(ui.curr)]
           ELSE [ui EXCEPT !.rendered = "days"]
  /\ UNCHANGED <<inflight, tz, up, slots, segments, entries, nextSlot, nextId, last>>

\* ------------------------------------------- toggle requests on the server
\* handleToggleEntry posts the request; nothing waits for the one before
IssueToggle(r, segmentId, date, completed) ==
  /\ up
  /\ inflight[r].pc = "idle"
  /\ inflight' = [inflight EXCEPT ![r] =
       [NoRequest EXCEPT !.pc = "upsert", !.segmentId = segmentId, !.date = date,
                         !.completed = completed]]
  /\ UNCHANGED <<tz, up, slots, segments, entries, nextSlot, nextId, last, ui>>

\* await HabitEntry.findOneAndUpdate(..., {upsert: true})
ToggleUpsert(r) ==
  LET q == inflight[r]
      Match(e) == IsEntryOf(q.segmentId, q.date, e)
      before == SelectSeq(entries["server"], Match)
  IN /\ q.pc = "upsert"
     /\ entries' = [entries EXCEPT !["server"] =
          ServerUpsertEntry(@, q.segmentId, q.date, q.completed)]
     /\ inflight' = [inflight EXCEPT ![r] =
          [q EXCEPT !.pc = "query",
                    !.existed = before # <<>>,
                    !.was = before # <<>> /\ before[1].completed]]
     /\ UNCHANGED <<tz, up, slots, segments, nextSlot, nextId, last, ui>>

\* await HabitEntry.find({segmentId, completed: true}).sort({date: -1}), and the
\* streak loop over what it returned
ToggleQuery(r) ==
  LET q == inflight[r]
      res == ServerStreak(entries["server"], q.segmentId, tz)
  IN /\ q.pc = "query"
     /\ inflight' = [inflight EXCEPT ![r] =
          [q EXCEPT !.pc = "update", !.streak = res.streak,
                    !.lastCompletedDate = res.lastCompletedDate]]
     /\ UNCHANGED <<tz, up, slots, segments, entries, nextSlot, nextId, last, ui>>

\* await HabitSegment.findByIdAndUpdate(segmentId, {streak, lastCompletedDate}),
\* then res.json
ToggleUpdate(r) ==
  LET q == inflight[r]
  IN /\ q.pc = "update"
     /\ segments' = [segments EXCEPT !["server"] =
          ServerStoreStreak(@, q.segmentId,
                            [streak |-> q.streak,
                             lastCompletedDate |-> q.lastCompletedDate])]
     /\ last' = [NoCall EXCEPT !.op = "toggleEntry", !.id = q.segmentId,
                   !.date = q.date, !.completed = q.completed,
                   !.existed = q.existed, !.was = q.was,
                   !.streak = q.streak, !.lastCompletedDate = q.lastCompletedDate]
     /\ inflight' = [inflight EXCEPT ![r].pc = "done"]
     /\ UNCHANGED <<tz, up, slots, entries, nextSlot, nextId, ui>>

\* ------------------------------------------------ server availability
\* between two calls the server becomes unreachable (the request times out
\* after 500 ms and the call falls back to localStorage) or reachable again
Reach(avail) ==
  /\ avail # up
  /\ up' = avail
  /\ UNCHANGED <<tz, slots, segments, entries, nextSlot, nextId, last, ui, inflight>>

\* ------------------------------------------------------- specifications
NextTimeline ==
  \/ nextSlot <= MaxSlots /\ CreateSlot
  \/ /\ nextId <= MaxSegs
     /\ \E slotId \in SlotIdsOf(Store), startDate \in Dates :
          CreateSegment(slotId, "n1", "c1", startDate)

SpecTimeline == Init /\ [][NextTimeline]_vars

\* CreateSegment and ToggleEntry on one slot, created beforehand
InitEntries ==
  /\ tz \in TzOffsets
  /\ up \in BOOLEAN
  /\ slots = [st \in Stores |-> IF st = Store THEN <<[id |-> 1, order |-> 0]>> ELSE <<>>]
  /\ segments = [st \in Stores |-> <<>>]
  /\ entries = [st \in Stores |-> <<>>]
  /\ nextSlot = 2
  /\ nextId = 1
  /\ last = [NoCall EXCEPT !.op = "createSlot", !.slot = 1]
  /\ inflight = NoRequests
  /\ ui = NoView

NextEntries ==
  \/ /\ nextId <= EntrySegs
     /\ \E slotId \in SlotIdsOf(Store) : CreateSegment(slotId, "n1", "c1", 0)
  \/ \E segmentId \in IssuedSegIds, date \in EntryDates, completed \in BOOLEAN :
       /\ HasEntry(entries[Store], segmentId, date) \/ Len(entries[Store]) < MaxEntries
       /\ ToggleEntry(segmentId, date, completed)

SpecEntries == InitEntries /\ [][NextEntries]_vars

\* the deletes, over segments that start on day 0 and entries of day 0
NextDelete ==
  \/ nextSlot <= DelSlots /\ CreateSlot
  \/ \E id \in IssuedSlotIds : DeleteSlot(id)
  \/ /\ nextId <= DelSegs
     /\ \E slotId \in SlotIdsOf(Store) : CreateSegment(slotId, "n1", "c1", 0)
  \/ \E id \in IssuedSegIds : DeleteSegment(id)
  \/ \E segmentId \in IssuedSegIds, completed \in BOOLEAN :
       /\ HasEntry(entries[Store], segmentId, 0) \/ Len(entries[Store]) < DelEntries
       /\ ToggleEntry(segmentId, 0, completed)

SpecDelete == Init /\ [][NextDelete]_vars

\* every operation
Next ==
  \/ nextSlot <= FullSlots /\ CreateSlot
  \/ \E id \in IssuedSlotIds : DeleteSlot(id)
  \/ /\ nextId <= FullSegs
     /\ \E slotId \in SlotIdsOf(Store), startDate \in FullDates :
          CreateSegment(slotId, "n1", "c1", startDate)
  \/ \E id \in IssuedSegIds : UpdateSegment(id, "n2", "c2")
  \/ \E id \in IssuedSegIds : DeleteSegment(id)
  \/ \E segmentId \in IssuedSegIds, date \in FullDates, completed \in BOOLEAN :
       /\ HasEntry(entries[Store], segmentId, date) \/ Len(entries[Store]) < FullEntries
       /\ ToggleEntry(segmentId, date, completed)

Spec == Init /\ [][Next]_vars

\* renaming and recolouring, over segments of one slot that start on day 0
\* and entries of day 0
NextRename ==
  \/ /\ nextId <= RenSegs
     /\ \E slotId \in SlotIdsOf(Store) : CreateSegment(slotId, "n1", "c1", 0)
  \/ \E id \in IssuedSegIds, look \in Looks : UpdateSegment(id, look[1], look[2])
  \/ \E segmentId \in IssuedSegIds, completed \in BOOLEAN :
       /\ HasEntry(entries[Store], segmentId, 0) \/ Len(entries[Store]) < RenEntries
       /\ ToggleEntry(segmentId, 0, completed)

SpecRename == InitEntries /\ [][NextRename]_vars

\* toggles that succeed and toggles whose storage fails part-way
NextToggleFail ==
  \/ /\ nextId <= FailSegs
     /\ \E slotId \in SlotIdsOf(Store) : CreateSegment(slotId, "n1", "c1", 0)
  \/ \E segmentId \in IssuedSegIds, date \in FailDates, completed \in BOOLEAN :
       /\ HasEntry(entries[Store], segmentId, date) \/ Len(entries[Store]) < FailEntries
       /\ ToggleEntry(segmentId, date, completed)
  \/ \E segmentId \in IssuedSegIds, date \in FailDates, completed \in BOOLEAN,
        at \in FailPoints :
       /\ HasEntry(entries[Store], segmentId, date) \/ Len(entries[Store]) < FailEntries
       /\ ToggleEntryFails(segmentId, date, completed, at)

SpecToggleFail == InitEntries /\ [][NextToggleFail]_vars

\* ----------------------------------------------- what the Dashboard loaded
\* lengths of a calendar month
MonthLens == {28, 29, 30, 31}

\* date ranges of a loaded segment, relative to the viewed month
OpenFromEarlier == [startDate |-> -3, endDate |-> Null]
ClosedInMonth == [startDate |-> 1, endDate |-> Some(9)]
OpenFromDayTen == [startDate |-> 10, endDate |-> Null]
ClosedBeforeMonth == [startDate |-> -3, endDate |-> Some(0)]
\* day 29 lies in the next month when the month has 28 days
OpenFromDay29 == [startDate |-> 29, endDate |-> Null]

\* every third day from day 1 to day 28: ten completed days
EveryThirdDay == [k \in 1..10 |-> [date |-> MonthFirst + 3 * (k - 1), completed |-> TRUE]]

\* a cleared day, a completed day and day 29
ClearedAndDone ==
  << [date |-> 5, completed |-> FALSE], [date |-> 10, completed |-> TRUE],
     [date |-> 29, completed |-> TRUE] >>

\* the last day of the month before, and day 1
AcrossMonthStart ==
  << [date |-> 0, completed |-> TRUE], [date |-> 1, completed |-> TRUE] >>

\* a loaded segment: its date range and its entries
SegPicks ==
  { <<OpenFromEarlier, <<>> >>,
    <<OpenFromEarlier, EveryThirdDay>>,
    <<OpenFromEarlier, AcrossMonthStart>>,
    <<ClosedInMonth, ClearedAndDone>>,
    <<OpenFromDayTen, EveryThirdDay>>,
    <<OpenFromDayTen, ClearedAndDone>>,
    <<ClosedBeforeMonth, AcrossMonthStart>>,
    <<OpenFromDay29, <<>> >> }

\* the entries of a top-habits segment: rates 0, 10 and 1 out of the month's days
RatePatterns ==
  { <<>>, EveryThirdDay, << [date |-> 1, completed |-> TRUE] >> }

HabitNames == <<"h1", "h2", "h3", "h4", "h5", "h6", "h7", "h8">>

\* entries left behind by a segment that is gone (the offline deleteSlot keeps them)
OrphanPatterns ==
  { <<>>, << [segmentId |-> 0, date |-> 2, completed |-> TRUE] >> }

\* the i-th loaded segment, in a slot of its own
LoadedSegment(i, shape) ==
  [NewSegment(i, i, HabitNames[i], "c1", shape.startDate) EXCEPT !.endDate = shape.endDate]

LoadedEntries(i, pattern) ==
  [k \in 1..Len(pattern) |->
     [segmentId |-> i, date |-> pattern[k].date, completed |-> pattern[k].completed]]

RECURSIVE EntriesOfPicks(_, _)
EntriesOfPicks(picks, i) ==
  IF i > Len(picks) THEN <<>>
  ELSE LoadedEntries(i, picks[i][2]) \o EntriesOfPicks(picks, i + 1)

\* the Dashboard after loadMonthData: a month, its segments and its entries
Loaded(monthLen, picks, orphans) ==
  [NoView EXCEPT !.monthLen = monthLen,
                 !.today = MonthFirst,
                 !.slots = [i \in 1..Len(picks) |-> [id |-> i, order |-> i - 1]],
                 !.segments = [i \in 1..Len(picks) |-> LoadedSegment(i, picks[i][1])],
                 !.entries = EntriesOfPicks(picks, 1) \o orphans]

\* nothing stored through this session; the view is all that changes
IdleStores ==
  /\ tz = 0
  /\ up = FALSE
  /\ slots = [st \in Stores |-> <<>>]
  /\ segments = [st \in Stores |-> <<>>]
  /\ entries = [st \in Stores |-> <<>>]
  /\ nextSlot = 1
  /\ nextId = 1
  /\ last = NoCall
  /\ inflight = NoRequests

InitAnalytics ==
  /\ IdleStores
  /\ \E monthLen \in MonthLens, orphans \in OrphanPatterns :
     \E picks \in UNION {[1..n -> SegPicks] : n \in 0..AnSegs} :
       ui = Loaded(monthLen, picks, orphans)

NextAnalytics == RenderAnalytics

SpecAnalytics == InitAnalytics /\ [][NextAnalytics]_vars

\* segments that are active all month, enough of them for the top-5 cut
InitTopHabits ==
  /\ IdleStores
  /\ \E picks \in UNION {[1..n -> {OpenFromEarlier} \X RatePatterns] :
                           n \in 0..TopSegs} :
       ui = Loaded(28, picks, <<>>)

SpecTopHabits == InitTopHabits /\ [][NextAnalytics]_vars

\* the local date on which the rows are rendered: day 1 and day 15 of the month
ViewDays == {MonthFirst, MonthFirst + 14}

\* what a loaded segment carries as streak and lastCompletedDate on the day
\* today: nothing (a server document), a fresh offline segment, or a streak
\* of 1 or 3 whose last completed day is 3 days ago .. tomorrow
StreakPicks(today) ==
  { <<Null, Null>>, <<Some(0), Null>> }
    \cup { <<Some(s), Some(today + o)>> : s \in {1, 3}, o \in -3..1 }

\* one slot whose segments overlap the month
LoadedRows(today, picks) ==
  [NoView EXCEPT !.monthLen = 30,
                 !.today = today,
                 !.slots = <<[id |-> 1, order |-> 0]>>,
                 !.segments = [i \in 1..Len(picks) |->
                    [NewSegment(i, 1, HabitNames[i], "c1", -3) EXCEPT
                       !.endDate = IF i < Len(picks) THEN Some(i) ELSE Null,
                       !.streak = picks[i][1],
                       !.lastCompletedDate = picks[i][2]]]]

InitRows ==
  /\ IdleStores
  /\ \E today \in ViewDays :
     \E picks \in UNION {[1..n -> StreakPicks(today)] : n \in 0..RowSegs} :
       ui = LoadedRows(today, picks)

NextRows == RenderRows

SpecRows == InitRows /\ [][NextRows]_vars

\* one row whose open segment carries a stored streak, last completed today,
\* yesterday or three days ago
InitMilestone ==
  /\ IdleStores
  /\ \E today \in ViewDays, s \in 0..MaxStreak, o \in {-3, -1, 0} :
       ui = [NoView EXCEPT
               !.monthLen = 30,
               !.today = today,
               !.slots = <<[id |-> 1, order |-> 0]>>,
               !.segments = <<[NewSegment(1, 1, "n1", "c1", -3) EXCEPT
                                 !.streak = Some(s),
                                 !.lastCompletedDate = Some(today + o)]>>]

SpecMilestone == InitMilestone /\ [][NextRows]_vars

\* the months viewed: leap and common years, a century year of each kind
Years == {2000, 2023, 2024, 2100}
Months == 0..11

InitCalendar ==
  /\ IdleStores
  /\ ui = NoView

NextCalendar ==
  \/ \E y \in Years, m \in Months : StartDaysInMonth(y, m)
  \/ StepDaysInMonth

SpecCalendar == InitCalendar /\ [][NextCalendar]_vars

\* the loop runs on one thread and nothing suspends it
SpecCalendarLive == SpecCalendar /\ WF_vars(StepDaysInMonth)

\* segments created and deleted, cells toggled, the slot deleted; then the
\* month is loaded and the analytics panel rendered
NextPct ==
  \/ /\ ui = NoView
     /\ nextId <= PctSegs
     /\ \E slotId \in SlotIdsOf(Store), startDate \in 1..PctDate :
          CreateSegment(slotId, "n1", "c1", startDate)
  \/ /\ ui = NoView
     /\ \E segmentId \in IssuedSegIds, date \in 1..PctDate, completed \in BOOLEAN :
          /\ HasEntry(entries[Store], segmentId, date) \/ Len(entries[Store]) < PctEntries
          /\ ToggleEntry(segmentId, date, completed)
  \/ /\ ui = NoView
     /\ \E id \in IssuedSegIds : DeleteSegment(id)
  \/ /\ ui = NoView
     /\ \E id \in IssuedSlotIds : DeleteSlot(id)
  \/ /\ ui = NoView
     /\ LoadMonthData(28)
  \/ RenderAnalytics

SpecPct == InitEntries /\ [][NextPct]_vars

\* one segment on the server and toggle requests for it that are handled
\* concurrently
InitRace ==
  /\ InitEntries
  /\ up

NextRace ==
  \/ /\ nextId <= 1
     /\ \E slotId \in SlotIdsOf("server") : CreateSegment(slotId, "n1", "c1", 0)
  \/ \E r \in 1..RaceReqs, segmentId \in IssuedSegIds, date \in 0..RaceDate,
        completed \in BOOLEAN :
       IssueToggle(r, segmentId, date, completed)
  \/ \E r \in 1..RaceReqs : ToggleUpsert(r)
  \/ \E r \in 1..RaceReqs : ToggleQuery(r)
  \/ \E r \in 1..RaceReqs : ToggleUpdate(r)

SpecRace == InitRace /\ [][NextRace]_vars

\* every call goes to the server or falls back on its own: the slot was created
\* on the server; segments get their id from the store that created them, and
\* a toggle that names an offline segment's id (a UUID, no ObjectId) is
\* rejected by the server and falls back
InitHybrid ==
  /\ InitEntries
  /\ up

NextHybrid ==
  \/ \E avail \in BOOLEAN : Reach(avail)
  \/ /\ nextId <= HybSegs
     /\ \E slotId \in SlotIdsOf("server") : CreateSegment(slotId, "n1", "c1", 0)
  \/ \E segmentId \in IssuedSegIds, date \in 0..HybDate, completed \in BOOLEAN :
       /\ HasEntry(entries[Store], segmentId, date) \/ Len(entries[Store]) < HybEntries
       /\ ~up \/ segmentId \in SegIdsOf("server")
       /\ ToggleEntry(segmentId, date, completed)
  \/ \E segmentId \in IssuedSegIds, date \in 0..HybDate, completed \in BOOLEAN :
       /\ HasEntry(entries["local"], segmentId, date) \/ Len(entries["local"]) < HybEntries
       /\ up /\ segmentId \in SegIdsOf("local")
       /\ ToggleEntryFails(segmentId, date, completed, "upsert")

SpecHybrid == InitHybrid /\ [][NextHybrid]_vars

\* segments of one slot that start inside the month, loaded for a 28-day month
NextCells ==
  \/ /\ nextId <= CellSegs
     /\ \E slotId \in SlotIdsOf(Store), startDate \in CellDates :
          CreateSegment(slotId, "n1", "c1", startDate)
  \/ LoadMonthData(28)

SpecCells == InitEntries /\ [][NextCells]_vars

\* segments created around a month, and the month loaded
NextQuery ==
  \/ nextSlot <= QuerySlots /\ CreateSlot
  \/ /\ nextId <= QuerySegs
     /\ \E slotId \in SlotIdsOf(Store), startDate \in QueryDates :
          CreateSegment(slotId, "n1", "c1", startDate)
  \/ \E monthLen \in QueryMonths : LoadMonthData(monthLen)

SpecQuery == Init /\ [][NextQuery]_vars

\* slots created, loaded and dragged; a row is dragged once the Dashboard shows
\* what the store holds
NextReorder ==
  \/ nextSlot <= ReSlots /\ CreateSlot
  \/ LoadMonthData(28)
  \/ /\ ui.slots = GetSlots
     /\ \E oldIndex, newIndex \in 1..Len(ui.slots) : ReorderSlots(oldIndex, newIndex)

SpecReorder == Init /\ [][NextReorder]_vars

\* ------------------------------------------------- the segment timeline
\* a segment is active on day d iff startDate <= d <= endDate (or it is open)
ActiveOn(s, d) == s.startDate <= d /\ (IsNull(s.endDate) \/ d <= Val(s.endDate))

SegsOf(st) == segments[st]

\* C1: after any sequence of CreateSegment calls no two segments of a slot are
\* active on the same calendar date (so at most one of them is open), in the
\* server's store and in the client's offline store.
C1_TimelineDisjoint ==
  \A st \in Stores : \A i, j \in 1..Len(SegsOf(st)) :
    (i < j /\ SegsOf(st)[i].slotId = SegsOf(st)[j].slotId)
      => ~ \E d \in Dates : ActiveOn(SegsOf(st)[i], d) /\ ActiveOn(SegsOf(st)[j], d)

\* the state before a CreateSegment call holds a segment of the slot that
\* starts strictly after the requested start
HasLaterSegment(slotId, startDate) ==
  \E i \in 1..Len(SegsOf(Store)) :
    SegsOf(Store)[i].slotId = slotId /\ SegsOf(Store)[i].startDate > startDate

\* C2: a CreateSegment whose slot already holds a segment starting strictly
\* after the requested startDate fails with InvalidRange, inserts nothing and
\* modifies no segment.
C2_InvalidRange ==
  [][ (last'.op = "createSegment" /\ HasLaterSegment(last'.slot, last'.date))
        => (last'.status = "InvalidRange" /\ segments' = segments) ]_vars

\* C3: a CreateSegment whose startDate is strictly after the start of the
\* slot's open segment closes that segment on the day before startDate and
\* appends the new segment open.
OpenCount(slotId) ==
  Cardinality({i \in 1..Len(SegsOf(Store)) : IsOpenOf(slotId, SegsOf(Store)[i])})

C3_ClosesOpenSegment ==
  [][ (last'.op = "createSegment" /\ OpenCount(last'.slot) <= 1) =>
        /\ \A i \in 1..Len(SegsOf(Store)) :
              (IsOpenOf(last'.slot, SegsOf(Store)[i])
                 /\ SegsOf(Store)[i].startDate < last'.date)
                => segments'[Store][i] =
                     [SegsOf(Store)[i] EXCEPT !.endDate = Some(last'.date - 1)]
        /\ Len(segments'[Store]) = Len(SegsOf(Store)) + 1
        /\ segments'[Store][Len(segments'[Store])].id = last'.id
        /\ segments'[Store][Len(segments'[Store])].startDate = last'.date
        /\ IsNull(segments'[Store][Len(segments'[Store])].endDate) ]_vars

\* C4: a CreateSegment whose startDate is on or before the start of the
\* slot's open segment leaves that open segment unmodified, on the server and
\* in the offline fallback.
C4_EarlierStartLeavesOpen ==
  [][ last'.op = "createSegment" =>
        \A i \in 1..Len(SegsOf(Store)) :
          (IsOpenOf(last'.slot, SegsOf(Store)[i])
             /\ last'.date <= SegsOf(Store)[i].startDate)
            => segments'[Store][i] = SegsOf(Store)[i] ]_vars

\* ------------------------------------------------------- the entry store
EntriesOf(st) == entries[st]

KeyCount(st, segmentId, date) ==
  Cardinality({i \in 1..Len(EntriesOf(st)) : IsEntryOf(segmentId, date, EntriesOf(st)[i])})

\* C5: after any sequence of ToggleEntry calls each store holds at most one
\* Entry per (segmentId, date).
C5_OneEntryPerKey ==
  \A st \in Stores : \A i, j \in 1..Len(EntriesOf(st)) :
    (EntriesOf(st)[i].segmentId = EntriesOf(st)[j].segmentId
       /\ EntriesOf(st)[i].date = EntriesOf(st)[j].date) => i = j

\* a toggle has just been applied to a pair that already had an entry, beside
\* another entry
C5_Witness ==
  /\ last.op = "toggleEntry" /\ last.existed
  /\ Len(EntriesOf(Store)) >= 2

\* C6: after a ToggleEntry exactly one Entry exists for its (segmentId, date)
\* and its completed field is the desiredCompleted of that toggle (true then
\* false leaves one record with completed = false).
C6_LastToggleWins ==
  last.op = "toggleEntry" =>
    /\ KeyCount(Store, last.id, last.date) = 1
    /\ \A i \in 1..Len(EntriesOf(Store)) :
         IsEntryOf(last.id, last.date, EntriesOf(Store)[i])
           => EntriesOf(Store)[i].completed = last.completed

\* toggled to false a pair whose entry was completed (true, then false)
C6_Witness ==
  /\ last.op = "toggleEntry" /\ ~last.completed /\ last.existed /\ last.was
  /\ KeyCount(Store, last.id, last.date) = 1

\* the calendar dates on which the segment has a completed entry
DoneDates(st, segmentId) ==
  {EntriesOf(st)[i].date :
     i \in {j \in 1..Len(EntriesOf(st)) :
              EntriesOf(st)[j].segmentId = segmentId /\ EntriesOf(st)[j].completed}}

\* the number of consecutive calendar days, ending at the latest one, in S
RunLength(S) ==
  IF S = {} THEN 0
  ELSE Max({n \in 1..Cardinality(S) : \A k \in 0..(n - 1) : (Max(S) - k) \in S})

\* C7: every ToggleEntry returns lastCompletedDate = the latest date with a
\* completed entry of the segment (absent if none) and streak = the number of
\* consecutive calendar days ending at that date that all have completed
\* entries.
C7_ReturnedStreak ==
  last.op = "toggleEntry" =>
    /\ last.lastCompletedDate =
         (IF DoneDates(Store, last.id) = {} THEN Null
          ELSE Some(Max(DoneDates(Store, last.id))))
    /\ last.streak = RunLength(DoneDates(Store, last.id))

\* what a reader takes from the stored streak: segment.streak || 0
StoredStreak(seg) == IF IsNull(seg.streak) THEN 0 ELSE Val(seg.streak)

Recomputed(st, segmentId) ==
  IF st = "server" THEN ServerStreak(EntriesOf(st), segmentId, tz)
  ELSE LocalStreak(EntriesOf(st), segmentId, tz)

\* C8: in every reachable state each stored segment's streak and
\* lastCompletedDate equal what the store's streak recomputation over the
\* segment's current entries produces.
C8_StreakIsMaterializedView ==
  \A st \in Stores : \A i \in 1..Len(SegsOf(st)) :
    /\ StoredStreak(SegsOf(st)[i]) = Recomputed(st, SegsOf(st)[i].id).streak
    /\ SegsOf(st)[i].lastCompletedDate = Recomputed(st, SegsOf(st)[i].id).lastCompletedDate

\* C9: DeleteSlot removes the slot, every segment of the slot and every entry
\* of those segments, on the server and in the offline fallback.
C9_DeleteSlotCascades ==
  [][ last'.op = "deleteSlot" =>
        /\ \A i \in 1..Len(slots'[Store]) : slots'[Store][i].id # last'.slot
        /\ \A i \in 1..Len(segments'[Store]) : segments'[Store][i].slotId # last'.slot
        /\ \A i \in 1..Len(entries'[Store]) :
             entries'[Store][i].segmentId \notin SegmentIdsOfSlot(SegsOf(Store), last'.slot)
      ]_vars

OtherEntries(es, id) ==
  LET Other(e) == e.segmentId # id IN SelectSeq(es, Other)

OtherSegments(segs, id) ==
  LET Other(s) == s.id # id IN SelectSeq(segs, Other)

\* C10: DeleteSegment removes the segment and every Entry of that segment, and
\* no entry of any other segment (nor any other segment).
C10_DeleteSegmentCascades ==
  [][ last'.op = "deleteSegment" =>
        /\ \A i \in 1..Len(segments'[Store]) : segments'[Store][i].id # last'.id
        /\ \A i \in 1..Len(entries'[Store]) : entries'[Store][i].segmentId # last'.id
        /\ OtherEntries(entries'[Store], last'.id) = OtherEntries(EntriesOf(Store), last'.id)
        /\ OtherSegments(segments'[Store], last'.id) = OtherSegments(SegsOf(Store), last'.id)
      ]_vars

\* a stored segment with entries has just been deleted and another segment's
\* entry is still stored
C10_Witness ==
  /\ last.op = "deleteSegment" /\ last.existed /\ last.was
  /\ EntriesOf(Store) # <<>>
  /\ SegsOf(Store) # <<>>

\* ------------------------------------------------------ RenameOrRecolor
\* C11: updateSegment changes nothing but the name and the color of the
\* segment it names: that segment's startDate, endDate, streak and
\* lastCompletedDate, every other segment, every entry and every slot stay
\* as they were, in both stores.
C11_RenameChangesOnlyLook ==
  [][last'.op = "updateSegment" =>
       /\ entries' = entries
       /\ slots' = slots
       /\ \A st \in Stores :
            /\ Len(segments'[st]) = Len(segments[st])
            /\ \A i \in 1..Len(segments[st]) :
                 IF st = Store /\ segments[st][i].id = last'.id
                 THEN [segments'[st][i] EXCEPT !.name = segments[st][i].name,
                                               !.color = segments[st][i].color]
                        = segments[st][i]
                 ELSE segments'[st][i] = segments[st][i]]_vars

\* a closed segment has just been renamed, next to another segment and an entry
C11_Witness ==
  /\ last.op = "updateSegment" /\ last.existed
  /\ \E i \in 1..Len(SegsOf(Store)) :
       /\ SegsOf(Store)[i].id = last.id
       /\ SegsOf(Store)[i].name = "n2"
       /\ ~IsNull(SegsOf(Store)[i].endDate)
  /\ Len(SegsOf(Store)) = 2
  /\ EntriesOf(Store) # <<>>

\* ------------------------------------------------------------- NotFound
\* C12: updateSegment, deleteSegment and toggleEntry called with a segment id
\* that no stored segment has, and deleteSlot called with a slot id that no
\* stored slot has, answer with an error and leave every slot, segment and
\* entry as it was; in particular such a toggleEntry stores no entry.
C12_UnknownIdIsNotFound ==
  [][(\/ /\ last'.op \in {"updateSegment", "deleteSegment", "toggleEntry"}
         /\ last'.id \notin SegIdsOf(Store)
      \/ /\ last'.op = "deleteSlot"
         /\ last'.slot \notin SlotIdsOf(Store))
       => /\ last'.status = "error"
          /\ slots' = slots
          /\ segments' = segments
          /\ entries' = entries]_vars

\* ------------------------------------------------------ failing toggles
\* C13: a toggleEntry whose storage fails part-way leaves no partial effect in
\* the store it failed in: either that store's entries and segments are what
\* they were, or the entry holds the requested flag and the segment's stored
\* streak and lastCompletedDate are the recomputation over the new entries.
C13_FailedToggleIsAtomic ==
  [][(last'.op = "toggleEntry" /\ last'.status \in {"error", "server-error"}) =>
       \/ /\ entries'[Store] = entries[Store]
          /\ segments'[Store] = segments[Store]
       \/ /\ \E k \in 1..Len(entries'[Store]) :
               /\ IsEntryOf(last'.id, last'.date, entries'[Store][k])
               /\ entries'[Store][k].completed = last'.completed
          /\ \A i \in 1..Len(segments'[Store]) :
               segments'[Store][i].id = last'.id =>
                 LET r == IF up THEN ServerStreak(entries'[Store], last'.id, tz)
                                ELSE LocalStreak(entries'[Store], last'.id, tz)
                 IN /\ StoredStreak(segments'[Store][i]) = r.streak
                    /\ segments'[Store][i].lastCompletedDate = r.lastCompletedDate]_vars

\* ------------------------------------------------- the analytics snapshot
DaysOfMonth == MonthFirst..(MonthFirst + ui.monthLen - 1)

\* the segments active on a day, over every loaded segment whatever its slot
ActiveSegs(date) == {i \in 1..Len(ui.segments) : ActiveOn(ui.segments[i], date)}

\* the completed entries of a day
CompletedEntries(date) ==
  {j \in 1..Len(ui.entries) : ui.entries[j].date = date /\ ui.entries[j].completed}

ActiveIn(days) == {p \in (1..Len(ui.segments)) \X days : ActiveOn(ui.segments[p[1]], p[2])}

CompletedIn(days) ==
  {j \in 1..Len(ui.entries) : ui.entries[j].date \in days /\ ui.entries[j].completed}

\* value is completed / active * 100, and 0 when active is 0
IsPct(value, completed, active) ==
  IF active = 0 THEN value = [num |-> 0, den |-> 1]
  ELSE value.den > 0 /\ value.num * active = 100 * completed * value.den

HasSnapshot == ui.rendered = "analytics" /\ ~IsNull(ui.analytics)

DoneDaysOfOnly ==
  {d \in DaysOfMonth : \E j \in 1..Len(ui.entries) :
     /\ ui.entries[j].segmentId = ui.segments[1].id
     /\ ui.entries[j].date = d
     /\ ui.entries[j].completed}

\* one segment, active on each of the 30 days, completed on 10 of them
OneSegmentTenOfThirty ==
  /\ ui.monthLen = 30
  /\ Len(ui.segments) = 1
  /\ \A d \in DaysOfMonth : ActiveOn(ui.segments[1], d)
  /\ Cardinality(DoneDaysOfOnly) = 10
  /\ Cardinality(CompletedIn(DaysOfMonth)) = 10

\* C17: overallEfficiency is the month's completed entries over the month's
\* active segment-days, times 100, and 0 when there is no active segment-day;
\* with one segment active on all 30 days and completed on 10 of them it is
\* 10/30*100, and dailyCompletion is 100 on the completed days and 0 on the rest.
C17_OverallEfficiency ==
  HasSnapshot =>
    LET a == Val(ui.analytics)
    IN /\ IsPct(a.overallEfficiency, Cardinality(CompletedIn(DaysOfMonth)),
                Cardinality(ActiveIn(DaysOfMonth)))
       /\ OneSegmentTenOfThirty =>
            /\ a.overallEfficiency = [num |-> 100, den |-> 3]
            /\ \A k \in 1..Len(a.dailyCompletion) :
                 a.dailyCompletion[k].value =
                   (IF a.dailyCompletion[k].date \in DoneDaysOfOnly
                    THEN [num |-> 100, den |-> 1] ELSE [num |-> 0, den |-> 1])

\* the snapshot of one segment active on all 30 days and completed on 10
C17_Witness == HasSnapshot /\ OneSegmentTenOfThirty

\* the buckets of the month, as the claim numbers them
BucketDays(week) ==
  {d \in DaysOfMonth : /\ WeekLength * (week - 1) < d - MonthFirst + 1
                       /\ d - MonthFirst + 1 <= WeekLength * week}

\* C18: weeklyProgress puts day d of the month into bucket ceil(d / 7): every
\* day lies in exactly one bucket, the buckets are numbered within 1..5, there
\* are at most 5 of them (4 when the month has 28 days), and a bucket's value
\* is its days' completed entries over its days' active segment-days, times 100.
C18_WeeklyProgress ==
  HasSnapshot =>
    LET weekly == Val(ui.analytics).weeklyProgress
    IN /\ Len(weekly) <= 5
       /\ ui.monthLen = 28 => Len(weekly) = 4
       /\ \A j \in 1..Len(weekly) : weekly[j].week \in 1..5
       /\ \A d \in DaysOfMonth :
            Cardinality({j \in 1..Len(weekly) : d \in BucketDays(weekly[j].week)}) = 1
       /\ \A j \in 1..Len(weekly) :
            IsPct(weekly[j].value, Cardinality(CompletedIn(BucketDays(weekly[j].week))),
                  Cardinality(ActiveIn(BucketDays(weekly[j].week))))

\* a 31-day month with five buckets, the fifth one with a completed entry
C18_Witness ==
  /\ HasSnapshot
  /\ ui.monthLen = 31
  /\ Len(Val(ui.analytics).weeklyProgress) = 5
  /\ Val(ui.analytics).weeklyProgress[5].value.num > 0
  /\ Val(ui.analytics).weeklyProgress[1].value.den > 1

\* where a top habit stands in the loaded segments (the loaded names are distinct)
InputIndex(name) == CHOOSE i \in 1..Len(ui.segments) : ui.segments[i].name = name

\* C19: topHabits has at most 5 items, their rates never increase from one item
\* to the next, and items of equal rate stand in the order of their segments
\* in the input.
C19_TopHabits ==
  HasSnapshot =>
    LET top == Val(ui.analytics).topHabits
    IN /\ Len(top) <= 5
       /\ \A k \in 1..(Len(top) - 1) : ~RateLess(top[k].rate, top[k + 1].rate)
       /\ \A j, k \in 1..Len(top) :
            (j < k /\ top[j].rate = top[k].rate) =>
              InputIndex(top[j].name) < InputIndex(top[k].name)

\* six segments were loaded, the first with the lowest rate, and the five
\* items kept hold a tie and two different rates
C19_Witness ==
  /\ HasSnapshot
  /\ Len(ui.segments) = 6
  /\ Len(Val(ui.analytics).topHabits) = 5
  /\ \A k \in 1..5 : Val(ui.analytics).topHabits[k].name # ui.segments[1].name
  /\ Val(ui.analytics).topHabits[1].rate = Val(ui.analytics).topHabits[2].rate
  /\ Val(ui.analytics).topHabits[1].rate # Val(ui.analytics).topHabits[5].rate

\* the days of the month on which a loaded segment is active
ActiveDaysOf(i) == {d \in DaysOfMonth : ActiveOn(ui.segments[i], d)}

Zero == [num |-> 0, den |-> 1]

\* C20: every ratio of the snapshot whose denominator is 0 is 0: the daily
\* value of a day without an active segment, overallEfficiency without an
\* active segment-day, the value of a bucket without an active segment-day,
\* and the rate of a segment without an active day in the month; no ratio has
\* a zero denominator left in it.
C20_ZeroDenominator ==
  HasSnapshot =>
    LET a == Val(ui.analytics)
    IN /\ \A k \in 1..Len(a.dailyCompletion) :
            /\ a.dailyCompletion[k].value.den > 0
            /\ ActiveSegs(a.dailyCompletion[k].date) = {} => a.dailyCompletion[k].value = Zero
       /\ a.overallEfficiency.den > 0
       /\ ActiveIn(DaysOfMonth) = {} => a.overallEfficiency = Zero
       /\ \A j \in 1..Len(a.weeklyProgress) :
            /\ a.weeklyProgress[j].value.den > 0
            /\ ActiveIn(BucketDays(a.weeklyProgress[j].week)) = {}
                 => a.weeklyProgress[j].value = Zero
       /\ \A k \in 1..Len(a.topHabits) :
            /\ a.topHabits[k].rate.den > 0
            /\ ActiveDaysOf(InputIndex(a.topHabits[k].name)) = {}
                 => a.topHabits[k].rate = Zero

\* no segment is loaded but an entry of the month is; or a loaded segment has
\* no active day in the month while the month has a completed entry
C20_Witness ==
  /\ HasSnapshot
  /\ CompletedIn(DaysOfMonth) # {}
  /\ \/ ui.segments = <<>>
     \/ /\ ActiveIn(DaysOfMonth) = {}
        /\ ui.segments # <<>>

\* ------------------------------------------------- the effective streak
\* C15: the streak a row displays is the stored streak of its segment exactly
\* when the segment's lastCompletedDate is today or yesterday, and 0 for every
\* other lastCompletedDate; rendering leaves the stored streak as it is.
C15_EffectiveStreak ==
  [][ui'.rendered = "rows" =>
       /\ ui'.segments = ui.segments
       /\ segments' = segments
       /\ \A k \in 1..Len(ui'.streaks) :
            LET shown == ActiveSegment(ui'.streaks[k].slot, GetDaysInMonth(ui.monthLen),
                                       ui.segments)
            IN ~IsNull(shown) =>
                 ui'.streaks[k].streak =
                   (IF Val(shown).lastCompletedDate \in {Some(ui.today), Some(ui.today - 1)}
                    THEN StoredStreak(Val(shown))
                    ELSE 0)]_vars

\* ------------------------------------- cleared entries and absent entries
\* the (segmentId, date) pairs tried: the loaded segments and a segment that is
\* gone, on the day before the month and on days 1, 2 and 10
VariantKeys ==
  ({ui.segments[i].id : i \in 1..Len(ui.segments)} \cup {0})
    \X {MonthFirst - 1, MonthFirst, MonthFirst + 1, MonthFirst + 9}

\* the loaded entries plus a cleared entry for a pair that has none
WithCleared(key) ==
  Append(ui.entries, [segmentId |-> key[1], date |-> key[2], completed |-> FALSE])

\* C14: a store that holds an entry with completed = false where the loaded one
\* holds no entry gives every reader what the loaded one gives: the analytics
\* snapshot, the completed flag of every cell, and the streak and
\* lastCompletedDate that a toggleEntry returns, on the server and offline.
C14_ClearedEntryIsAbsent ==
  ui.rendered = "analytics" =>
    \A key \in VariantKeys :
      ~HasEntry(ui.entries, key[1], key[2]) =>
        /\ AnalyticsData(GetDaysInMonth(ui.monthLen), ui.segments, WithCleared(key))
             = ui.analytics
        /\ \A k \in 1..Len(ui.slots), d \in DaysOfMonth :
             IsCompleted(ui.slots[k].id, d, ui.segments, WithCleared(key))
               = IsCompleted(ui.slots[k].id, d, ui.segments, ui.entries)
        /\ \A t \in VariantKeys, completed \in BOOLEAN, off \in TzOffsets :
             /\ ServerStreak(ServerUpsertEntry(WithCleared(key), t[1], t[2], completed),
                             t[1], off)
                  = ServerStreak(ServerUpsertEntry(ui.entries, t[1], t[2], completed),
                                 t[1], off)
             /\ LocalStreak(LocalUpsertEntry(WithCleared(key), t[1], t[2], completed),
                            t[1], off)
                  = LocalStreak(LocalUpsertEntry(ui.entries, t[1], t[2], completed),
                                t[1], off)

\* ---------------------------------------------------------- previousDay
\* C21: getPreviousDate gives the calendar date one day before its argument,
\* on the server and in the client, whatever the UTC offset of the local zone.
C21_PreviousDayIsDayBefore ==
  \A d \in Dates :
    /\ ServerGetPreviousDate(d, tz) = d - 1
    /\ LocalGetPreviousDate(d, tz) = d - 1

\* ------------------------------------------------------ ActiveSegmentOn
\* the loaded segments of a slot whose range holds a day
HoldingSegs(slotId, date) ==
  {i \in 1..Len(ui.segments) :
     ui.segments[i].slotId = slotId /\ ActiveOn(ui.segments[i], date)}

\* C22: for a slot and a day of the loaded month, segmentForDay is a segment of
\* the slot whose range holds the day whenever there is one, and when several
\* hold the day it is one with the latest startDate among them.
C22_LatestStartWins ==
  ui.monthLen > 0 =>
    \A k \in 1..Len(ui.slots), d \in DaysOfMonth :
      LET found == SegmentForDay(ui.slots[k].id, d, ui.segments)
      IN HoldingSegs(ui.slots[k].id, d) # {} =>
           /\ ~IsNull(found)
           /\ Val(found).slotId = ui.slots[k].id
           /\ ActiveOn(Val(found), d)
           /\ \A i \in HoldingSegs(ui.slots[k].id, d) :
                ui.segments[i].startDate <= Val(found).startDate

\* ------------------------------------------------------ the month query
\* the range of a segment has a day in the month
Intersects(s, monthLen) ==
  \E d \in MonthFirst..(MonthFirst + monthLen - 1) : ActiveOn(s, d)

IntersectingSegs(segs, monthLen) ==
  LET Hit(s) == Intersects(s, monthLen) IN SelectSeq(segs, Hit)

\* C23: what loadMonthData takes from getSegments is exactly the stored
\* segments whose range [startDate, endDate or unbounded] has a day in the
\* month, none left out and none added, and the server's query and the offline
\* filter select the same segments from the same collection.
C23_MonthQuery ==
  [][(ui' # ui /\ segments' = segments /\ ui'.monthLen > 0) =>
       /\ ui'.segments = IntersectingSegs(SegsOf(Store), ui'.monthLen)
       /\ \A st \in Stores :
            ServerGetSegments(SegsOf(st), ui'.monthLen)
              = LocalGetSegments(SegsOf(st), ui'.monthLen)]_vars

\* --------------------------------------------------------- slot order
SlotIdSeq(ss) == [k \in 1..Len(ss) |-> ss[k].id]

\* C24: after reorderSlots was called with the stored slots in a new sequence,
\* getSlots returns the slots in exactly that sequence, on the server and
\* offline.
C24_ReorderThenLoad ==
  [][(last'.op = "reorderSlots" /\ ui.slots = GetSlots) =>
       SlotIdSeq(IF up THEN ServerGetSlots(slots'["server"])
                       ELSE LocalGetSlots(slots'["local"]))
         = SlotIdSeq(ui'.slots)]_vars

\* ------------------------------------------------------ the next milestone
\* the ladder 7, 14, 21, 30, 60, 90, 100, 200, 300, ...
InLadder(v) == v \in {7, 14, 21, 30, 60, 90} \/ (v >= 100 /\ v % 100 = 0)

\* C25: the milestone a row shows is the smallest value of the ladder
\* 7, 14, 21, 30, 60, 90, 100, 200, 300, ... that is strictly greater than the
\* row's streak.
C25_NextMilestone ==
  ui.rendered = "rows" =>
    \A k \in 1..Len(ui.streaks) :
      LET streak == ui.streaks[k].streak
          m == ui.streaks[k].nextMilestone
      IN /\ InLadder(m)
         /\ m > streak
         /\ \A v \in (streak + 1)..(m - 1) : ~InLadder(v)

\* a row at a streak of exactly 100, whose next milestone is 200
C25_Witness ==
  /\ ui.rendered = "rows"
  /\ Len(ui.streaks) = 1
  /\ ui.streaks[1].streak = 100
  /\ ui.streaks[1].nextMilestone = 200

\* --------------------------------------------------- the days of a month
\* the Gregorian calendar: leap years and the number of days of a month
IsLeap(y) == y % 4 = 0 /\ (y % 100 # 0 \/ y % 400 = 0)

CalendarLength(y, m) ==
  IF m = 1 THEN (IF IsLeap(y) THEN 29 ELSE 28)
  ELSE IF m \in {3, 5, 8, 10} THEN 30 ELSE 31

\* days from 1970-01-01 to day d of month m of year y: 365 for every year, one
\* more for every leap year, then month by month
DaysBeforeYear(y) ==
  365 * (y - 1970) + Cardinality({x \in 1970..(y - 1) : IsLeap(x)})

RECURSIVE DaysBeforeMonth(_, _)
DaysBeforeMonth(y, m) ==
  IF m = 0 THEN 0 ELSE DaysBeforeMonth(y, m - 1) + CalendarLength(y, m - 1)

CivilDay(y, m, d) == DaysBeforeYear(y) + DaysBeforeMonth(y, m) + d - 1

\* C26: getDaysInMonth returns the days of the month in ascending order from
\* day 1, each one day after the one before, as many as the month has in the
\* calendar (28 or 29 in February by leap year, else 30 or 31), and its loop
\* ends for every month.
C26_DaysInMonth ==
  /\ [](ui.rendered = "days" =>
          /\ Len(ui.days) = CalendarLength(ui.year, ui.month)
          /\ \A k \in 1..Len(ui.days) :
               ToISODate(ui.days[k]) = CivilDay(ui.year, ui.month, k))
  /\ (ui.rendered = "days-loop" ~> ui.rendered = "days")

\* the 29 days of February 2024 were returned
C26_Witness ==
  /\ ui.rendered = "days"
  /\ ui.year = 2024
  /\ ui.month = 1
  /\ Len(ui.days) = 29

\* ------------------------------------------------ percentages within 0..100
\* 0 <= value <= 100 for a value kept as a fraction
WithinPct(value) ==
  value.den > 0 /\ 0 <= value.num /\ value.num <= 100 * value.den

\* C27: after any creates, toggles and deletes, every dailyCompletion value,
\* every weeklyProgress value and overallEfficiency of the rendered snapshot lie
\* between 0 and 100.
C27_PercentagesWithinBounds ==
  HasSnapshot =>
    LET a == Val(ui.analytics)
    IN /\ \A k \in 1..Len(a.dailyCompletion) : WithinPct(a.dailyCompletion[k].value)
       /\ \A j \in 1..Len(a.weeklyProgress) : WithinPct(a.weeklyProgress[j].value)
       /\ WithinPct(a.overallEfficiency)

\* ------------------------------------------------- closed segments' ranges
\* C28: after any sequence of createSegment calls every closed segment has
\* startDate <= endDate, on the server and offline.
C28_ClosedRangeWellFormed ==
  \A st \in Stores : \A i \in 1..Len(segments[st]) :
    ~IsNull(segments[st][i].endDate) =>
      segments[st][i].startDate <= Val(segments[st][i].endDate)

\* ------------------------------------------------- concurrent toggles
AllAnswered == \A r \in 1..RaceReqs : inflight[r].pc = "done"

\* C29: when the toggle requests for a segment were handled concurrently on the
\* server, with their steps interleaved in any order, then once all of them are
\* answered the segment's stored streak and lastCompletedDate are what the
\* recomputation over the stored entries gives.
C29_ConcurrentTogglesConverge ==
  AllAnswered =>
    \A i \in 1..Len(SegsOf("server")) :
      LET seg == SegsOf("server")[i]
          res == ServerStreak(EntriesOf("server"), seg.id, tz)
      IN /\ StoredStreak(seg) = res.streak
         /\ seg.lastCompletedDate = res.lastCompletedDate

\* ------------------------------------------------- the hybrid fallback
\* the store a toggle that returned to its caller was applied in
AppliedIn == IF up /\ last'.status = "ok" THEN "server" ELSE "local"

\* C30: with every call going to the server or falling back on its own, every
\* toggleEntry that returns is applied in a store that holds the named segment,
\* and there the segment's streak and lastCompletedDate are the returned ones.
C30_ToggleAppliedWhereSegmentIs ==
  [][(last'.op = "toggleEntry" /\ last'.status # "error" /\ up' = up) =>
       \E i \in 1..Len(segments'[AppliedIn]) :
         LET seg == segments'[AppliedIn][i]
         IN /\ seg.id = last'.id
            /\ StoredStreak(seg) = last'.streak
            /\ seg.lastCompletedDate = last'.lastCompletedDate]_vars
====
